---- MODULE Spec2Model ----
(***************************************************************************)
(* Model of s3-upload-folders.js: the scan of the configured folders, the  *)
(* batch scheduler (processBatch), the per-file transfer unit (uploadFile) *)
(* with its retries, and main's exits.                                     *)
(*                                                                         *)
(* A transfer unit is identified by the position of its file in allFiles.  *)
(* One action is one turn of the event loop: the synchronous code that     *)
(* runs between two awaits that wait on the outside world (the sink's      *)
(* answer, the retry timer).                                               *)
(***************************************************************************)
EXTENDS Integers, Sequences, FiniteSets, TLC

(* ---------------------------------------------------------------- bounds *)
\* the largest config.concurrency of a run
MaxConcurrency == 2
\* the most upload attempts a run can make: files * (retryAttempts + 1)
MaxAttempts == 6
\* the longest file name, in characters, and the deepest file below a
\* configured folder, of the paths whose key is computed
MaxNameLen == 2
MaxDepth == 2
\* the most entries of a configured folder, in the scans checked on their own
MaxEntries == 3
\* the longest CONCURRENCY setting, in characters, and the most files and
\* loop iterations of the batch building checked on its own
MaxEnvLen == 2
MaxLoopFiles == 3
MaxLoopSteps == 5

(* ------------------------------------------------------------- constants *)
FOLDERS_TO_UPLOAD == <<"ExamGenrator", "Grand", "Keylinks">>

\* config.baseDir (process.cwd()), as a sequence of path segments
BaseDir == <<"cwd">>

(* ------------------------------------------------------------ filesystem *)
\* A filesystem entry. The name of an entry is given by its position in the
\* listing of its directory (EntryName), so names in a directory are distinct.
File == [kind |-> "file", readable |-> TRUE, entries |-> <<>>]
Other == [kind |-> "other", readable |-> TRUE, entries |-> <<>>]
Missing == [kind |-> "missing", readable |-> FALSE, entries |-> <<>>]
Dir(r, es) == [kind |-> "dir", readable |-> r, entries |-> es]

EntryName(i) == <<"a.txt", "b", "c", "d", "e">>[i]

\* What each configured folder can be on disk: absent, a regular file, an
\* empty directory, directories with files, other entries and subdirectories,
\* and directories that cannot be listed.
RootChoices ==
    { Missing,
      File,
      Dir(TRUE, <<>>),
      Dir(TRUE, <<File, Dir(FALSE, <<File>>)>>),
      Dir(TRUE, <<File, Other, Dir(TRUE, <<File>>)>>),
      Dir(FALSE, <<File>>) }

Folders == {FOLDERS_TO_UPLOAD[i] : i \in 1..Len(FOLDERS_TO_UPLOAD)}

\* The disks of the scans checked on their own. A subdirectory is empty,
\* holds a file, cannot be listed, or holds a directory (listable or not)
\* followed by a file.
SubDirs ==
    { Dir(TRUE, <<>>),
      Dir(TRUE, <<File>>),
      Dir(FALSE, <<File>>),
      Dir(TRUE, <<Dir(TRUE, <<File>>), File>>),
      Dir(TRUE, <<Dir(FALSE, <<File>>), File>>) }

EntryChoices == {File, Other} \cup SubDirs

\* one configured folder is anything with up to MaxEntries entries
ScanRoots ==
    {Missing, File, Dir(FALSE, <<File>>)} \cup
    {Dir(TRUE, es) : es \in UNION {[1..n -> EntryChoices] : n \in 0..MaxEntries}}

\* the other configured folders
OtherRoots ==
    {Missing, Dir(TRUE, <<File>>), Dir(TRUE, <<Dir(FALSE, <<File>>), File>>)}

VARIABLES
    fs,             \* the disk: configured folder name -> entry
    concurrency,    \* config.concurrency
    retryAttempts,  \* config.retryAttempts
    pc,             \* where main is: "start", "uploading", "done", "exited"
    exitCode,       \* -1 while the process runs, else the process exit code
    allFiles,       \* result of getAllFiles: sequence of absolute paths
    warnings,       \* folder name -> number of 'does not exist' warnings
    scanRuns,       \* number of calls of getAllFiles
    totalFiles,
    uploadedFiles,
    failedFiles,
    progress,       \* number of progressBar.increment calls
    batches,        \* processBatch's batches: sequences of positions in allFiles
    batchIdx,       \* number of batches dispatched so far
    units,          \* one record per transfer unit (position in allFiles)
    faults,         \* units whose report of the final failure raised (line 163)
    scanErrors,     \* number of 'Error scanning directory' lines (line 85)
    elapsedMs,      \* Date.now() - startTime: 0, or 1 for any later reading
    divisions,      \* evaluations of uploadedFiles / duration (lines 153, 162, 233)
    dividedByZero   \* whether one of them had a duration of 0

VARIABLES
    platform,       \* process.platform: "posix" or "win32"
    filePath,       \* a path built by the scan, as a string
    s3Key           \* the Key of its uploadParams, <<>> until computed

keyVars == <<platform, filePath, s3Key>>

VARIABLES
    envConcurrency,   \* process.env.CONCURRENCY, as a string; <<>> when unset
    concurrencyIsNaN, \* config.concurrency is NaN (concurrency is then 0)
    loopI,            \* the variable i of the loop of processBatch
    loopPc            \* "idle", "loop" while it runs, "built" after it

cfgVars == <<envConcurrency, concurrencyIsNaN, loopI, loopPc>>

vars == <<fs, concurrency, retryAttempts, pc, exitCode, allFiles, warnings,
          scanRuns, totalFiles, uploadedFiles, failedFiles, progress,
          batches, batchIdx, units, faults, scanErrors, elapsedMs,
          divisions, dividedByZero, keyVars, cfgVars>>

\* the clock and what is computed from it
clockVars == <<elapsedMs, divisions, dividedByZero>>

(* ------------------------------------------------------------------ scan *)
\* fs.existsSync(path.join(config.baseDir, folder))
ExistsSync(disk, folder) == disk[folder].kind # "missing"

RECURSIVE ScanDir(_, _)
RECURSIVE ScanEntries(_, _, _)

\* scanDir(currentDir): readdirSync throws for an unreadable directory and for
\* a path that is not a directory; the catch logs and the scan goes on.
ScanDir(path, node) ==
    IF node.kind = "dir" /\ node.readable
    THEN ScanEntries(path, node.entries, 1)
    ELSE <<>>

\* faulty variant: an entry that is neither a directory nor a regular file
\* is pushed too
ScanEntriesPushesOthers(path, es, i) ==
    IF i > Len(es) THEN <<>>
    ELSE LET e == es[i]
             fullPath == Append(path, EntryName(i))
             here == IF e.kind = "dir" THEN ScanDir(fullPath, e)
                     ELSE <<fullPath>>
         IN  here \o ScanEntries(path, es, i + 1)

\* faulty variant: the error of a subdirectory ends the loop of its parent
ScanEntriesStopsAtError(path, es, i) ==
    IF i > Len(es) THEN <<>>
    ELSE LET e == es[i]
             fullPath == Append(path, EntryName(i))
             here == IF e.kind = "dir" THEN ScanDir(fullPath, e)
                     ELSE IF e.kind = "file" THEN <<fullPath>>
                     ELSE <<>>
         IN  IF e.kind = "dir" /\ ~e.readable
             THEN here
             ELSE here \o ScanEntries(path, es, i + 1)

\* the for-loop over the entries of one directory, from entry i on
ScanEntries(path, es, i) ==
    IF i > Len(es) THEN <<>>
    ELSE LET e == es[i]
             fullPath == Append(path, EntryName(i))
             here == IF e.kind = "dir" THEN ScanDir(fullPath, e)
                     ELSE IF e.kind = "file" THEN <<fullPath>>
                     ELSE <<>>
         IN  here \o ScanEntries(path, es, i + 1)

RECURSIVE GetAllFilesFrom(_, _, _)
\* the loop 'for (const folder of folders)' of getAllFiles, from folder i on
GetAllFilesFrom(disk, folders, i) ==
    IF i > Len(folders) THEN <<>>
    ELSE LET folder == folders[i]
             folderPath == Append(BaseDir, folder)
             here == IF ExistsSync(disk, folder)
                     THEN ScanDir(folderPath, disk[folder])
                     ELSE <<>>
         IN  here \o GetAllFilesFrom(disk, folders, i + 1)

GetAllFiles(disk, folders) == GetAllFilesFrom(disk, folders, 1)

RECURSIVE ScanErrorsIn(_)
RECURSIVE ScanErrorsFrom(_, _)
\* line 85: the console.error calls of scanDir(node) and of the calls below it
ScanErrorsIn(node) ==
    IF node.kind = "dir" /\ node.readable
    THEN ScanErrorsFrom(node.entries, 1)
    ELSE 1

ScanErrorsFrom(es, i) ==
    IF i > Len(es) THEN 0
    ELSE (IF es[i].kind = "dir" THEN ScanErrorsIn(es[i]) ELSE 0)
            + ScanErrorsFrom(es, i + 1)

RECURSIVE ScanErrorsOfRoots(_, _, _)
ScanErrorsOfRoots(disk, folders, i) ==
    IF i > Len(folders) THEN 0
    ELSE (IF ExistsSync(disk, folders[i]) THEN ScanErrorsIn(disk[folders[i]]) ELSE 0)
            + ScanErrorsOfRoots(disk, folders, i + 1)

\* the console.error calls of one run of getAllFiles
ScanErrors(disk, folders) == ScanErrorsOfRoots(disk, folders, 1)

\* faulty variant: the test of line 92 inverted, the warning goes to existing folders
SkipWarningsInverted(disk, folders) ==
    [f \in Folders |->
        Cardinality({i \in 1..Len(folders) :
                        folders[i] = f /\ ExistsSync(disk, f)})]

\* console.warn of getAllFiles: one per loop iteration whose folder is absent
SkipWarnings(disk, folders) ==
    [f \in Folders |->
        Cardinality({i \in 1..Len(folders) :
                        folders[i] = f /\ ~ExistsSync(disk, f)})]

\* faulty variant: the filter of line 197 keeps every configured folder
ExistingFoldersUnfiltered(disk) == FOLDERS_TO_UPLOAD

\* existingFolders of main
ExistingFolders(disk) ==
    SelectSeq(FOLDERS_TO_UPLOAD, LAMBDA f : ExistsSync(disk, f))

(* ---------------------------------------------------------- processBatch *)
Min(a, b) == IF a < b THEN a ELSE b

\* faulty variant: the slice ends one element early
SliceEndsEarly(files, i, j) == SubSeq(files, i + 1, Min(j, Len(files)) - 1)

\* files.slice(i, i + batchSize), i counted from 0
Slice(files, i, j) == SubSeq(files, i + 1, Min(j, Len(files)))

RECURSIVE BatchesFrom(_, _, _)
\* for (let i = 0; i < files.length; i += batchSize) batches.push(slice)
BatchesFrom(files, i, batchSize) ==
    IF i < Len(files)
    THEN <<Slice(files, i, i + batchSize)>> \o BatchesFrom(files, i + batchSize, batchSize)
    ELSE <<>>

\* faulty variant: batches one file larger than config.concurrency
MakeBatchesOversize(files, batchSize) == BatchesFrom(files, 0, batchSize + 1)

MakeBatches(files, batchSize) == BatchesFrom(files, 0, batchSize)

Positions(n) == [i \in 1..n |-> i]

SeqToSet(s) == {s[i] : i \in 1..Len(s)}

(* ------------------------------------------------------------ uploadFile *)
\* status: "pending"  not dispatched yet
\*         "inflight" s3Client.send called, not yet answered
\*         "waiting"  in the retry delay (setTimeout)
\*         "uploaded" returned true
\*         "failed"   returned false
\*         "threw"    the promise of uploadFile rejected
NewUnit == [status |-> "pending", retryCount |-> 0, sinkCalls |-> 0,
            readFails |-> 0, upIncs |-> 0, failIncs |-> 0, emits |-> 0]

Settled(u) == u.status \in {"uploaded", "failed"}

\* faulty variant: one retry too many
RetryAllowedOffByOne(retryCount, limit) == retryCount <= limit

\* line 156: if (retryCount < config.retryAttempts)
RetryAllowed(retryCount, limit) == retryCount < limit

\* faulty variant: a success is counted twice
RecordSuccessCountsTwice(u) ==
    [u EXCEPT !.status = "uploaded", !.upIncs = @ + 2, !.emits = @ + 1]

\* lines 152-154: uploadedFiles++, progressBar.increment, return true
RecordSuccess(u) ==
    [u EXCEPT !.status = "uploaded", !.upIncs = @ + 1, !.emits = @ + 1]

\* faulty variant: the final failure is not counted
RecordFailureUncounted(u, throws) ==
    [u EXCEPT !.status = IF throws THEN "threw" ELSE "failed", !.emits = @ + 1]

\* faulty variant: the final failure is rethrown instead of returning false
RecordFailureRethrows(u, throws) ==
    [u EXCEPT !.status = "threw", !.failIncs = @ + 1, !.emits = @ + 1]

\* lines 161-164: failedFiles++, progressBar.increment, console.error with
\* error.message, return false. 'throws' is an exception raised by line 163
\* while the failure is being reported (error.message of a rejection value
\* that is null or undefined is a TypeError): the counter and the progress
\* bar have been updated by then, and the promise of uploadFile rejects.
RecordFailure(u, throws) ==
    [u EXCEPT !.status = IF throws THEN "threw" ELSE "failed",
              !.failIncs = @ + 1, !.emits = @ + 1]

\* faulty variant: every failed attempt is counted and reported, not only the last
CatchCountsEachFailure(u, limit, throws) ==
    IF RetryAllowed(u.retryCount, limit)
    THEN [u EXCEPT !.status = "waiting", !.failIncs = @ + 1, !.emits = @ + 1]
    ELSE RecordFailure(u, throws)

\* lines 155-166: the catch block
Catch(u, limit, throws) ==
    IF RetryAllowed(u.retryCount, limit)
    THEN [u EXCEPT !.status = "waiting"]
    ELSE RecordFailure(u, throws)

\* faulty variant: the sink is called before the file is read
AttemptSendsBeforeRead(u, limit, readOK) ==
    IF readOK
    THEN [u EXCEPT !.status = "inflight", !.sinkCalls = @ + 1]
    ELSE Catch([u EXCEPT !.readFails = @ + 1, !.sinkCalls = @ + 1], limit, FALSE)

\* lines 137-151: readFileSync, then s3Client.send; a failed read throws an
\* Error into the catch block before any sink call.
Attempt(u, limit, readOK) ==
    IF readOK
    THEN [u EXCEPT !.status = "inflight", !.sinkCalls = @ + 1]
    ELSE Catch([u EXCEPT !.readFails = @ + 1], limit, FALSE)

\* counter increments made between two states of the units
UpDelta(old, new) == IF new.upIncs > old.upIncs THEN new.upIncs - old.upIncs ELSE 0
FailDelta(old, new) == IF new.failIncs > old.failIncs THEN new.failIncs - old.failIncs ELSE 0
EmitDelta(old, new) == IF new.emits > old.emits THEN new.emits - old.emits ELSE 0

RECURSIVE Sum(_, _)
Sum(f, S) == IF S = {} THEN 0
             ELSE LET x == CHOOSE y \in S : TRUE IN f[x] + Sum(f, S \ {x})

(* ---------------------------------------------------- path and s3Key *)
\* A string is a sequence of atoms: an atom is one character, or a run of
\* characters that holds neither '/' nor '\' (a folder name, "..", "C:").

\* path.sep
Sep(pf) == IF pf = "win32" THEN "\\" ELSE "/"

\* process.cwd(), the value of config.baseDir
Cwd(pf) == IF pf = "win32" THEN <<"C:", "\\", "w">> ELSE <<"/", "w">>

\* the characters a file name is made of here: '\' is an ordinary character
\* of a POSIX file name and cannot occur in a Windows one
NameChars(pf) == IF pf = "win32" THEN {"a"} ELSE {"a", "\\"}

\* the entry names readdirSync can return
Names(pf) == UNION {[1..n -> NameChars(pf)] : n \in 1..MaxNameLen}

\* path.join(dir, name) for a normalized dir and a plain name
PathJoin(pf, dir, name) == dir \o <<Sep(pf)>> \o name

RECURSIVE SplitFrom(_, _, _, _)
SplitFrom(str, sep, i, cur) ==
    IF i > Len(str) THEN <<cur>>
    ELSE IF str[i] = sep
         THEN <<cur>> \o SplitFrom(str, sep, i + 1, <<>>)
         ELSE SplitFrom(str, sep, i + 1, Append(cur, str[i]))

\* the segments of a path
Split(str, sep) == SplitFrom(str, sep, 1, <<>>)

RECURSIVE JoinSegs(_, _)
JoinSegs(segs, sep) ==
    IF segs = <<>> THEN <<>>
    ELSE IF Len(segs) = 1 THEN segs[1]
         ELSE segs[1] \o <<sep>> \o JoinSegs(Tail(segs), sep)

RECURSIVE CommonPrefix(_, _, _)
\* how many leading segments two paths share
CommonPrefix(a, b, n) ==
    IF n < Len(a) /\ n < Len(b) /\ a[n + 1] = b[n + 1]
    THEN CommonPrefix(a, b, n + 1)
    ELSE n

\* path.relative(from, to) for two normalized absolute paths: one ".." per
\* segment of from that to does not share, then the rest of to
Relative(pf, from, to) ==
    LET a == Split(from, Sep(pf))
        b == Split(to, Sep(pf))
        n == CommonPrefix(a, b, 0)
        ups == [i \in 1..(Len(a) - n) |-> <<"..">>]
    IN  JoinSegs(ups \o SubSeq(b, n + 1, Len(b)), Sep(pf))

\* line 141: relativePath.replace(/\\/g, '/')
ReplaceBackslashes(str) ==
    [i \in DOMAIN str |-> IF str[i] = "\\" THEN "/" ELSE str[i]]

\* lines 140-141: the Key of uploadParams
S3Key(pf, base, path) == ReplaceBackslashes(Relative(pf, base, path))

\* how many segments a path lies below config.baseDir
Depth(pf, path) == Len(Split(path, Sep(pf))) - Len(Split(Cwd(pf), Sep(pf)))

\* no key is being computed
KeyIdle == platform = "posix" /\ filePath = <<>> /\ s3Key = <<>>

(* ------------------------------------------- CONCURRENCY and the batches *)
\* A JavaScript number is NaN or an integer here.
NaN == [nan |-> TRUE, n |-> 0]
Num(k) == [nan |-> FALSE, n |-> k]

Digits == <<"0", "1", "2", "3", "4", "5", "6", "7", "8", "9">>
DigitChars == {Digits[k] : k \in DOMAIN Digits}
DigitValue(c) == (CHOOSE k \in DOMAIN Digits : Digits[k] = c) - 1

\* the characters of the CONCURRENCY settings tried
EnvChars == {"0", "2", "-", "a"}

\* the CONCURRENCY settings tried; <<>> is the variable unset or empty
EnvChoices == UNION {[1..n -> EnvChars] : n \in 0..MaxEnvLen}

RECURSIVE DigitPrefix(_, _, _)
\* the value of the digits str starts with from position i on, after the
\* digits read so far gave acc; -1 when there is no digit at all
DigitPrefix(str, i, acc) ==
    IF i <= Len(str) /\ str[i] \in DigitChars
    THEN DigitPrefix(str, i + 1, (IF acc < 0 THEN 0 ELSE acc * 10) + DigitValue(str[i]))
    ELSE acc

\* parseInt(str, 10): an optional sign, then the longest run of digits; NaN
\* when no digit follows
ParseInt(str) ==
    LET neg == str # <<>> /\ str[1] = "-"
        v == DigitPrefix(str, IF neg THEN 2 ELSE 1, -1)
    IN  IF v < 0 THEN NaN ELSE Num(IF neg THEN 0 - v ELSE v)

\* line 21: parseInt(process.env.CONCURRENCY || '20', 10)
ParseConcurrency(env) == ParseInt(IF env = <<>> THEN <<"2", "0">> ELSE env)

\* the CONCURRENCY setting written in the plainest way, for 0 <= k <= 9
DigitString(k) == <<Digits[k + 1]>>

\* config.concurrency as a JavaScript number
ConfigConcurrency == IF concurrencyIsNaN THEN NaN ELSE Num(concurrency)

\* a + b
Plus(a, b) == IF a.nan \/ b.nan THEN NaN ELSE Num(a.n + b.n)

\* a < len
LessThan(a, len) == ~a.nan /\ a.n < len

\* the index Array.prototype.slice makes of an argument: NaN is 0, a
\* negative number counts from the end, nothing lies outside the array
SliceIndex(a, len) ==
    IF a.nan THEN 0
    ELSE IF a.n < 0 THEN (IF len + a.n < 0 THEN 0 ELSE len + a.n)
         ELSE Min(a.n, len)

\* files.slice(start, end) for JavaScript numbers
SliceJS(files, start, end) ==
    SubSeq(files, SliceIndex(start, Len(files)) + 1, SliceIndex(end, Len(files)))

\* the configuration is the one of the run, and the loop is not followed
ConfigIdle ==
    /\ envConcurrency = DigitString(concurrency)
    /\ concurrencyIsNaN = FALSE
    /\ loopI = Num(0)
    /\ loopPc = "idle"

(* ------------------------------------------------------------------ Init *)
\* lines 52-56: nothing has run yet
InitCounters ==
    /\ pc = "start"
    /\ exitCode = -1
    /\ allFiles = <<>>
    /\ warnings = [f \in Folders |-> 0]
    /\ scanRuns = 0
    /\ totalFiles = 0
    /\ uploadedFiles = 0
    /\ failedFiles = 0
    /\ progress = 0
    /\ batches = <<>>
    /\ batchIdx = 0
    /\ units = <<>>
    /\ faults = {}
    /\ scanErrors = 0
    /\ elapsedMs = 0
    /\ divisions = 0
    /\ dividedByZero = FALSE

InitMain ==
    /\ fs \in [Folders -> RootChoices]
    /\ concurrency \in 1..MaxConcurrency
    /\ retryAttempts \in 0..(MaxAttempts - 1)
    /\ Len(GetAllFiles(fs, FOLDERS_TO_UPLOAD)) * (retryAttempts + 1) <= MaxAttempts
    /\ InitCounters

Init == InitMain /\ KeyIdle /\ ConfigIdle

(* ------------------------------------------------------------------ main *)
\* lines 197-202: no configured folder exists: process.exit(1)
MainNoFolders ==
    /\ pc = "start"
    /\ Len(ExistingFolders(fs)) = 0
    /\ pc' = "exited"
    /\ exitCode' = 1
    /\ UNCHANGED <<keyVars, cfgVars,
                   fs, concurrency, retryAttempts, allFiles, warnings, scanRuns,
                   totalFiles, uploadedFiles, failedFiles, progress, batches,
                   batchIdx, units, faults, scanErrors, clockVars>>

\* faulty variant: the empty scan is not told apart
EmptyScanIgnored(n) == FALSE

\* line 208: if (totalFiles === 0)
EmptyScan(n) == n = 0

\* lines 204-220 and 172-177: the scan, totalFiles, the exit of an empty scan,
\* else startTime = Date.now() and the start of processBatch, which builds
\* its batches.
MainScan ==
    /\ pc = "start"
    /\ Len(ExistingFolders(fs)) # 0
    /\ LET found == GetAllFiles(fs, FOLDERS_TO_UPLOAD) IN
        /\ allFiles' = found
        /\ warnings' = SkipWarnings(fs, FOLDERS_TO_UPLOAD)
        /\ scanRuns' = scanRuns + 1
        /\ scanErrors' = ScanErrors(fs, FOLDERS_TO_UPLOAD)
        /\ totalFiles' = Len(found)
        /\ IF EmptyScan(Len(found))
           THEN /\ pc' = "exited"
                /\ exitCode' = 0
                /\ UNCHANGED <<batches, units>>
           ELSE /\ pc' = "uploading"
                /\ exitCode' = exitCode
                /\ batches' = MakeBatches(Positions(Len(found)), concurrency)
                /\ units' = [i \in 1..Len(found) |-> NewUnit]
    /\ UNCHANGED <<keyVars, cfgVars,
                   fs, concurrency, retryAttempts, uploadedFiles, failedFiles,
                   progress, batchIdx, faults, clockVars>>

\* faulty variant: the batches are started without awaiting the one before
BarrierOpenNoAwait(us, bs, idx) == TRUE

\* line 181: 'await Promise.all(...)' of the batch dispatched last lets the
\* loop go on once every promise of that batch has resolved.
BarrierOpen(us, bs, idx) ==
    IF idx = 0 THEN TRUE ELSE \A i \in SeqToSet(bs[idx]) : Settled(us[i])

\* (Date.now() - startTime) / 1000 is 0: the code divides by it as it is
ZeroDuration(ms) == ms = 0

\* the units after some of them took a step, with the counters they moved
Account(new) ==
    /\ units' = new
    /\ uploadedFiles' = uploadedFiles
            + Sum([i \in DOMAIN new |-> UpDelta(units[i], new[i])], DOMAIN new)
    /\ failedFiles' = failedFiles
            + Sum([i \in DOMAIN new |-> FailDelta(units[i], new[i])], DOMAIN new)
    /\ LET emitted == Sum([i \in DOMAIN new |-> EmitDelta(units[i], new[i])],
                          DOMAIN new) IN
        /\ progress' = progress + emitted
        \* lines 153, 162: each progressBar.increment is given
        \* Math.round(uploadedFiles / ((Date.now() - startTime) / 1000))
        /\ divisions' = divisions + emitted
        /\ dividedByZero' = (dividedByZero \/ (emitted > 0 /\ ZeroDuration(elapsedMs)))
    /\ elapsedMs' = elapsedMs
    /\ IF \E i \in DOMAIN new : new[i].status = "threw"
       THEN \* Promise.all rejects, processBatch rejects, main's catch
            \* (lines 251-254) calls process.exit(1)
            /\ pc' = "exited"
            /\ exitCode' = 1
       ELSE UNCHANGED <<pc, exitCode>>

\* lines 179-181: batch.map(file => uploadFile(file)) of the next batch; each
\* call runs up to its first await: the file is read and the sink is called.
DispatchBatch ==
    /\ pc = "uploading"
    /\ batchIdx < Len(batches)
    /\ BarrierOpen(units, batches, batchIdx)
    /\ LET batch == SeqToSet(batches[batchIdx + 1]) IN
        \E readOK \in [batch -> BOOLEAN] :
            Account([i \in DOMAIN units |->
                        IF i \in batch
                        THEN Attempt(units[i], retryAttempts, readOK[i])
                        ELSE units[i]])
    /\ batchIdx' = batchIdx + 1
    /\ UNCHANGED <<keyVars, cfgVars,
                   fs, concurrency, retryAttempts, allFiles, warnings, scanRuns,
                   totalFiles, batches, faults, scanErrors>>

\* s3Client.send resolves: lines 152-154
SinkResolve(i) ==
    /\ pc = "uploading"
    /\ units[i].status = "inflight"
    /\ Account([units EXCEPT ![i] = RecordSuccess(units[i])])
    /\ UNCHANGED <<keyVars, cfgVars,
                   fs, concurrency, retryAttempts, allFiles, warnings, scanRuns,
                   totalFiles, batches, batchIdx, faults, scanErrors>>

\* s3Client.send rejects: lines 155-166
SinkReject(i) ==
    /\ pc = "uploading"
    /\ units[i].status = "inflight"
    /\ \E throws \in (IF RetryAllowed(units[i].retryCount, retryAttempts)
                      THEN {FALSE} ELSE BOOLEAN) :
        /\ Account([units EXCEPT ![i] = Catch(units[i], retryAttempts, throws)])
        /\ faults' = IF throws THEN faults \cup {i} ELSE faults
    /\ UNCHANGED <<keyVars, cfgVars,
                   fs, concurrency, retryAttempts, allFiles, warnings, scanRuns,
                   totalFiles, batches, batchIdx, scanErrors>>

\* the retry delay elapses: lines 158-159, uploadFile(filePath, retryCount + 1)
RetryTimer(i) ==
    /\ pc = "uploading"
    /\ units[i].status = "waiting"
    /\ \E readOK \in BOOLEAN :
        Account([units EXCEPT ![i] =
                    Attempt([units[i] EXCEPT !.retryCount = @ + 1],
                            retryAttempts, readOK)])
    /\ UNCHANGED <<keyVars, cfgVars,
                   fs, concurrency, retryAttempts, allFiles, warnings, scanRuns,
                   totalFiles, batches, batchIdx, faults, scanErrors>>

\* faulty variant: a run with failed files exits with code 1
SummaryExitCodeFailing(failed) == IF failed > 0 THEN 1 ELSE 0

\* lines 222-250: nothing after processBatch looks at failedFiles or calls
\* process.exit: main returns and the process ends with exit code 0.
SummaryExitCode(failed) == 0

\* lines 222-250: processBatch returned; the summary is printed, with
\* duration = (Date.now() - startTime) / 1000 and uploadedFiles / duration.
MainSummary ==
    /\ pc = "uploading"
    /\ batchIdx = Len(batches)
    /\ BarrierOpen(units, batches, batchIdx)
    /\ pc' = "done"
    /\ exitCode' = SummaryExitCode(failedFiles)
    /\ divisions' = divisions + 1
    /\ dividedByZero' = (dividedByZero \/ ZeroDuration(elapsedMs))
    /\ UNCHANGED <<keyVars, cfgVars,
                   fs, concurrency, retryAttempts, allFiles, warnings, scanRuns,
                   totalFiles, uploadedFiles, failedFiles, progress, batches,
                   batchIdx, units, faults, scanErrors, elapsedMs>>

\* the clock read by Date.now() moves on while the upload runs
Tick ==
    /\ pc = "uploading"
    /\ elapsedMs = 0
    /\ elapsedMs' = 1
    /\ UNCHANGED <<keyVars, cfgVars,
                   fs, concurrency, retryAttempts, pc, exitCode, allFiles,
                   warnings, scanRuns, totalFiles, uploadedFiles, failedFiles,
                   progress, batches, batchIdx, units, faults, scanErrors,
                   divisions, dividedByZero>>

Next ==
    \/ MainNoFolders
    \/ MainScan
    \/ DispatchBatch
    \/ \E i \in DOMAIN units : SinkResolve(i)
    \/ \E i \in DOMAIN units : SinkReject(i)
    \/ \E i \in DOMAIN units : RetryTimer(i)
    \/ MainSummary

\* The run as the event loop steps it. The clock is not moved here: no
\* branch of the code reads it, it only enters the speeds that are printed.
Spec == Init /\ [][Next]_vars

\* The run with the clock moving at any moment of the upload
NextClock == Next \/ Tick

SpecClock == Init /\ [][NextClock]_vars

\* a sink call returns, with success or with an error
SinkReturns == \E i \in DOMAIN units : SinkResolve(i) \/ SinkReject(i)

\* a retry delay elapses
DelayElapses == \E i \in DOMAIN units : RetryTimer(i)

\* the synchronous steps of main and processBatch are run by the event loop
MainSteps == MainNoFolders \/ MainScan \/ DispatchBatch \/ MainSummary

\* The run under a fair environment: the event loop runs what is ready,
\* every sink call returns and every retry delay elapses.
SpecFair ==
    /\ Spec
    /\ WF_vars(MainSteps)
    /\ WF_vars(SinkReturns)
    /\ WF_vars(DelayElapses)

(* ------------------------------------------------- the key of one upload *)
\* line 93: scanDir(path.join(config.baseDir, folder)) on either platform
InitKey ==
    /\ InitMain
    /\ \A f \in Folders : fs[f] = Dir(TRUE, <<>>)
    /\ concurrency = 1 /\ retryAttempts = 0
    /\ platform \in {"posix", "win32"}
    /\ \E f \in Folders : filePath = PathJoin(platform, Cwd(platform), <<f>>)
    /\ s3Key = <<>>
    /\ ConfigIdle

\* line 76: fullPath = path.join(dir, entry.name)
ScanJoin ==
    /\ s3Key = <<>>
    /\ Depth(platform, filePath) <= MaxDepth
    /\ \E name \in Names(platform) :
        filePath' = PathJoin(platform, filePath, name)
    /\ UNCHANGED <<fs, concurrency, retryAttempts, pc, exitCode, allFiles,
                   warnings, scanRuns, totalFiles, uploadedFiles, failedFiles,
                   progress, batches, batchIdx, units, faults, scanErrors,
                   clockVars, platform, s3Key, cfgVars>>

\* lines 140-141: uploadFile computes the key of a file found by the scan
UploadKey ==
    /\ s3Key = <<>>
    /\ Depth(platform, filePath) >= 2
    /\ s3Key' = S3Key(platform, Cwd(platform), filePath)
    /\ UNCHANGED <<fs, concurrency, retryAttempts, pc, exitCode, allFiles,
                   warnings, scanRuns, totalFiles, uploadedFiles, failedFiles,
                   progress, batches, batchIdx, units, faults, scanErrors,
                   clockVars, platform, filePath, cfgVars>>

NextKey == ScanJoin \/ UploadKey

SpecKey == InitKey /\ [][NextKey]_vars

(* ---------------------------------------- the batch loop on its own *)
\* processBatch is entered (line 171) with the files of a scan and the
\* config.concurrency that line 21 made of the CONCURRENCY setting
InitConfig ==
    /\ envConcurrency \in EnvChoices
    /\ concurrencyIsNaN = ParseConcurrency(envConcurrency).nan
    /\ concurrency = ParseConcurrency(envConcurrency).n
    /\ retryAttempts = 0
    /\ \E n \in 1..MaxLoopFiles :
        fs = [f \in Folders |->
                IF f = FOLDERS_TO_UPLOAD[1] THEN Dir(TRUE, [k \in 1..n |-> File])
                ELSE Missing]
    /\ pc = "uploading"
    /\ exitCode = -1
    /\ allFiles = GetAllFiles(fs, FOLDERS_TO_UPLOAD)
    /\ warnings = SkipWarnings(fs, FOLDERS_TO_UPLOAD)
    /\ scanRuns = 1
    /\ totalFiles = Len(allFiles)
    /\ uploadedFiles = 0 /\ failedFiles = 0 /\ progress = 0
    /\ batches = <<>> /\ batchIdx = 0
    /\ units = [i \in 1..totalFiles |-> NewUnit]
    /\ faults = {}
    /\ scanErrors = 0
    /\ elapsedMs = 0 /\ divisions = 0 /\ dividedByZero = FALSE
    /\ KeyIdle
    /\ loopI = Num(0)
    /\ loopPc = "loop"

\* lines 175-177: one iteration of
\* for (let i = 0; i < files.length; i += batchSize) batches.push(slice)
BatchLoopStep ==
    /\ loopPc = "loop"
    /\ Len(batches) < MaxLoopSteps
    /\ LessThan(loopI, totalFiles)
    /\ batches' = Append(batches, SliceJS(Positions(totalFiles), loopI,
                                          Plus(loopI, ConfigConcurrency)))
    /\ loopI' = Plus(loopI, ConfigConcurrency)
    /\ UNCHANGED <<fs, concurrency, retryAttempts, pc, exitCode, allFiles,
                   warnings, scanRuns, totalFiles, uploadedFiles, failedFiles,
                   progress, batchIdx, units, faults, scanErrors,
                   clockVars, keyVars, envConcurrency, concurrencyIsNaN, loopPc>>

\* line 175: the test of the loop fails and the loop is left
BatchLoopExit ==
    /\ loopPc = "loop"
    /\ ~LessThan(loopI, totalFiles)
    /\ loopPc' = "built"
    /\ UNCHANGED <<fs, concurrency, retryAttempts, pc, exitCode, allFiles,
                   warnings, scanRuns, totalFiles, uploadedFiles, failedFiles,
                   progress, batches, batchIdx, units, faults, scanErrors,
                   clockVars, keyVars, envConcurrency, concurrencyIsNaN, loopI>>

NextConfig == BatchLoopStep \/ BatchLoopExit

SpecConfig == InitConfig /\ [][NextConfig]_vars

(* ------------------------------------------------- the scan on its own *)
\* main up to the end of getAllFiles, on disks with deeper trees
InitScan ==
    /\ \E g \in Folders, root \in ScanRoots :
        \E others \in [Folders \ {g} -> OtherRoots] :
            fs = [f \in Folders |-> IF f = g THEN root ELSE others[f]]
    /\ concurrency = 1
    /\ retryAttempts = 0
    /\ InitCounters
    /\ KeyIdle
    /\ ConfigIdle

NextScan == MainNoFolders \/ MainScan

SpecScan == InitScan /\ [][NextScan]_vars

(* ---------------------------------------------------------------- claims *)
Dispatched(u) == u.status # "pending"
InFlight == {i \in DOMAIN units : units[i].status = "inflight"}
WithStatus(S) == {i \in DOMAIN units : units[i].status \in S}

\* the batch a transfer unit belongs to
GroupOf(i) == CHOOSE k \in 1..Len(batches) : i \in SeqToSet(batches[k])

\* C1: when main has got past processBatch and printed the summary,
\* uploadedFiles + failedFiles = totalFiles, and totalFiles is the number of
\* files the scan returned, whatever the sink answered.
C1_Totality ==
    pc = "done" =>
        /\ uploadedFiles + failedFiles = totalFiles
        /\ totalFiles = Len(allFiles)
        /\ totalFiles = Len(units)

\* C1 witness: a finished run with both uploaded and failed files
C1_Witness ==
    pc = "done" /\ uploadedFiles > 0 /\ failedFiles > 0

\* C2: in every state at most config.concurrency sink calls are in flight.
C2_ConcurrencyBound ==
    Cardinality(InFlight) <= concurrency

\* C2 witness: the bound is reached while one unit of the batch is in its
\* retry delay and further files are still to be dispatched
C2_Witness ==
    /\ concurrency = 2
    /\ Cardinality(InFlight) = 2
    /\ \E i \in DOMAIN units : units[i].status = "pending"
    /\ \E i \in InFlight : units[i].retryCount > 0

\* C3: no unit of a later batch has started while a unit of an earlier batch
\* is not settled (uploaded, or failed after its retries).
C3_Barrier ==
    \A i, j \in DOMAIN units :
        (GroupOf(i) < GroupOf(j) /\ Dispatched(units[j])) => Settled(units[i])

\* C3 witness: the second batch has started after a batch of two units in
\* which one unit failed for good and the other was uploaded
C3_Witness ==
    /\ concurrency = 2
    /\ Len(batches) >= 2
    /\ Dispatched(units[3])
    /\ units[1].status = "failed"
    /\ units[2].status = "uploaded"

\* the attempts a dispatched unit has started
Attempts(u) == u.retryCount + 1

\* C4 as stated: a unit that failed for good has made retryAttempts + 1 sink
\* calls, and a unit that succeeded on its k-th attempt has made k sink calls.
C4_AsStated ==
    \A i \in DOMAIN units :
        /\ units[i].status = "failed" =>
                units[i].sinkCalls = retryAttempts + 1
        /\ units[i].status = "uploaded" =>
                units[i].sinkCalls = Attempts(units[i])

\* C4 (amended): every attempt makes one sink call, except an attempt whose
\* file read failed, which makes none; a unit that failed for good has made
\* exactly retryAttempts + 1 attempts and is counted as failed once; a unit
\* that was uploaded succeeded on its k-th attempt, k <= retryAttempts + 1,
\* after k attempts, and is counted as uploaded once.
C4_RetryBound ==
    \A i \in DOMAIN units :
        LET u == units[i] IN
        /\ Dispatched(u) => u.sinkCalls + u.readFails = Attempts(u)
        /\ u.retryCount <= retryAttempts
        /\ u.status \in {"failed", "threw"} =>
                /\ Attempts(u) = retryAttempts + 1
                /\ u.failIncs = 1 /\ u.upIncs = 0
        /\ u.status = "uploaded" =>
                /\ u.sinkCalls >= 1
                /\ u.upIncs = 1 /\ u.failIncs = 0

\* C4 witness: with retryAttempts = 1 one unit failed both sink calls, one was
\* uploaded by its second sink call
C4_Witness ==
    /\ retryAttempts = 1
    /\ \E i \in DOMAIN units :
            /\ units[i].status = "failed"
            /\ units[i].sinkCalls = 2
    /\ \E i \in DOMAIN units :
            /\ units[i].status = "uploaded"
            /\ units[i].sinkCalls = 2

\* C5: a unit that reached its final outcome has moved exactly one of the two
\* counters, once, and the progress bar once, however many retries it took;
\* a unit that has not reached it has moved neither.
C5_ExactlyOnce ==
    /\ \A i \in DOMAIN units :
        LET u == units[i] IN
        /\ u.status = "uploaded" => u.upIncs = 1 /\ u.failIncs = 0 /\ u.emits = 1
        /\ u.status \in {"failed", "threw"} =>
                u.upIncs = 0 /\ u.failIncs = 1 /\ u.emits = 1
        /\ u.status \in {"pending", "inflight", "waiting"} =>
                u.upIncs = 0 /\ u.failIncs = 0 /\ u.emits = 0
    /\ uploadedFiles = Cardinality(WithStatus({"uploaded"}))
    /\ failedFiles = Cardinality(WithStatus({"failed", "threw"}))
    /\ progress = uploadedFiles + failedFiles

\* C5 witness: one unit uploaded after a retry, one failed after a retry
C5_Witness ==
    /\ \E i \in DOMAIN units :
            units[i].status = "uploaded" /\ units[i].retryCount > 0
    /\ \E i \in DOMAIN units :
            units[i].status = "failed" /\ units[i].retryCount > 0

\* C6 as stated: when the report of one unit's final failure raises, the
\* units dispatched in the same batch still run on to their own outcome:
\* the process is not ended while one of them is in flight or in its delay.
C6_FaultIsolation ==
    \A i \in faults : \A j \in DOMAIN units :
        (GroupOf(j) = GroupOf(i) /\ units[j].status \in {"inflight", "waiting"})
            => exitCode = -1

C8_ExitZeroWithFailures ==
    /\ pc = "done" => exitCode = 0
    /\ exitCode = 1 => (scanRuns = 0 \/ WithStatus({"threw"}) # {})

\* C8 witness: every file failed for good and the exit code is 0
C8_Witness ==
    /\ pc = "done"
    /\ totalFiles >= 2
    /\ failedFiles = totalFiles
    /\ exitCode = 0

AllMissing == \A f \in Folders : fs[f].kind = "missing"

\* C9: when no configured folder exists, the process ends with exit code 1
\* without having run the scan and without any transfer unit or sink call.
C9_NoFolders ==
    (AllMissing /\ pc # "start") =>
        /\ pc = "exited" /\ exitCode = 1
        /\ scanRuns = 0
        /\ units = <<>> /\ allFiles = <<>>

\* C9 witness: no folder exists and the process has ended
C9_Witness ==
    AllMissing /\ pc = "exited"

\* the files of allFiles below one configured folder, in order
FilesUnder(f) ==
    SelectSeq(allFiles, LAMBDA p : p[Len(BaseDir) + 1] = f)

\* C10: once the scan has run, a folder that does not exist has produced one
\* warning and no file; a folder that exists has produced no warning and its
\* files; and the run goes on to upload them: with a folder missing the
\* process ends only at the summary, at an empty scan or by a rejected promise.
C10_SkipSemantics ==
    scanRuns > 0 =>
        /\ scanRuns = 1
        /\ \A f \in Folders :
            IF fs[f].kind = "missing"
            THEN warnings[f] = 1 /\ FilesUnder(f) = <<>>
            ELSE /\ warnings[f] = 0
                 /\ FilesUnder(f) = ScanDir(Append(BaseDir, f), fs[f])
        /\ totalFiles = Len(allFiles)
        /\ pc = "done" => \A i \in DOMAIN units : Settled(units[i])
        /\ exitCode = 1 => WithStatus({"threw"}) # {}

\* C10 witness: the first folder holds a.txt, the other two are missing; the
\* run is over with two warnings, one file found and uploaded
C10_Witness ==
    /\ fs["Grand"].kind = "missing" /\ fs["Keylinks"].kind = "missing"
    /\ warnings = [f \in Folders |-> IF f = "ExamGenrator" THEN 0 ELSE 1]
    /\ allFiles = << <<"cwd", "ExamGenrator", "a.txt">> >>
    /\ totalFiles = 1
    /\ pc = "done" /\ uploadedFiles = 1

\* C11: when the scan has run and found no file (the folders that exist hold
\* none), the process has ended with exit code 0 and totalFiles 0; no unit
\* was created, so no sink call was made, the progress bar never moved and
\* uploadedFiles / duration was never evaluated.
C11_ZeroFileRun ==
    (scanRuns > 0 /\ totalFiles = 0) =>
        /\ pc = "exited" /\ exitCode = 0
        /\ allFiles = <<>> /\ batches = <<>> /\ units = <<>>
        /\ uploadedFiles = 0 /\ failedFiles = 0 /\ progress = 0
        /\ divisions = 0 /\ ~dividedByZero

\* C11 witness: the first folder is an empty directory, no folder holds a
\* file, and the run has ended at the empty scan
C11_Witness ==
    /\ fs["ExamGenrator"] = Dir(TRUE, <<>>)
    /\ scanRuns = 1 /\ totalFiles = 0
    /\ pc = "exited" /\ exitCode = 0

\* C12 as stated: uploadedFiles is never divided by a duration of 0
C12_NoZeroDivision ==
    ~dividedByZero

RECURSIVE Concat(_)
\* the batches laid end to end
Concat(bs) == IF bs = <<>> THEN <<>> ELSE Head(bs) \o Concat(Tail(bs))

\* the sizes of the batches, in order
Sizes(bs) == [k \in DOMAIN bs |-> Len(bs[k])]

\* C13: once processBatch has built its batches, they are consecutive pieces
\* of the file list: laid end to end they are the list itself, every batch
\* but the last holds config.concurrency files and the last holds between 1
\* and config.concurrency; there is one unit per scanned file, a unit has
\* been dispatched exactly when its batch has been started, and at the
\* summary every unit is settled and counted once.
C13_Partitioning ==
    (scanRuns > 0 /\ totalFiles > 0) =>
        /\ Concat(batches) = Positions(totalFiles)
        /\ Len(units) = totalFiles
        /\ \A k \in DOMAIN batches :
            /\ Len(batches[k]) \in 1..concurrency
            /\ k < Len(batches) => Len(batches[k]) = concurrency
            /\ \A j \in DOMAIN batches[k] :
                IF batches[k][j] \in DOMAIN units
                THEN Dispatched(units[batches[k][j]]) <=> k <= batchIdx
                ELSE FALSE
        /\ pc = "done" =>
            /\ \A i \in DOMAIN units : Settled(units[i])
            /\ uploadedFiles + failedFiles = totalFiles

\* C13 witness: concurrency 2 and five files that all succeeded: three
\* batches of sizes 2, 2, 1, five uploaded, none failed
C13_Witness ==
    /\ concurrency = 2 /\ totalFiles = 5
    /\ batches = << <<1, 2>>, <<3, 4>>, <<5>> >>
    /\ Sizes(batches) = <<2, 2, 1>>
    /\ pc = "done" /\ uploadedFiles = 5 /\ failedFiles = 0

\* C14: in every reachable state uploadedFiles and failedFiles are at least
\* 0, their sum is at most totalFiles and is the number of units that have
\* reached their final outcome; and no step of the run, whichever unit's
\* completion it is, makes either counter smaller.
C14_CounterInvariant ==
    /\ [](/\ uploadedFiles >= 0 /\ failedFiles >= 0
          /\ uploadedFiles + failedFiles <= totalFiles
          /\ uploadedFiles = Cardinality(WithStatus({"uploaded"}))
          /\ failedFiles = Cardinality(WithStatus({"failed", "threw"})))
    /\ [][uploadedFiles' >= uploadedFiles /\ failedFiles' >= failedFiles]_vars

\* C14 witness: two units of one batch were in flight together; one has been
\* counted, the other is still in flight, and both counters have moved
C14_Witness ==
    /\ pc = "uploading" /\ concurrency = 2
    /\ uploadedFiles >= 1 /\ failedFiles >= 1
    /\ \E k \in DOMAIN batches : \E i, j \in SeqToSet(batches[k]) :
        /\ Settled(units[i])
        /\ units[j].status = "inflight"

\* path.relative(config.baseDir, filePath), the path the key is made from
RelativePath == Relative(platform, Cwd(platform), filePath)

\* a path with each of the platform's separators written '/'
NormalizeSeparators(pf, str) ==
    [i \in DOMAIN str |-> IF str[i] = Sep(pf) THEN "/" ELSE str[i]]

\* C15 as stated: the key of an upload is the file's path relative to
\* config.baseDir with the platform's separators written '/'; it does not
\* begin with a separator, a drive or "..".
C15_KeyCorrectness ==
    s3Key # <<>> =>
        /\ s3Key = NormalizeSeparators(platform, RelativePath)
        /\ s3Key[1] \in Folders

RECURSIVE FilesIn(_, _, _)
\* the regular files at or below an entry of the disk; with listedOnly, only
\* those reached through directories that can be listed
FilesIn(path, node, listedOnly) ==
    IF node.kind = "file" THEN {path}
    ELSE IF node.kind = "dir" /\ (node.readable \/ ~listedOnly)
         THEN UNION {FilesIn(Append(path, EntryName(i)), node.entries[i], listedOnly) :
                        i \in DOMAIN node.entries}
         ELSE {}

\* the regular files below the configured folders on the disk
AllRegularFiles ==
    UNION {UNION {FilesIn(Append(Append(BaseDir, f), EntryName(i)),
                          fs[f].entries[i], FALSE) : i \in DOMAIN fs[f].entries} :
           f \in Folders}

\* those that are reached through directories that can be listed
ReadableFiles ==
    UNION {IF fs[f].kind = "dir" /\ fs[f].readable
           THEN UNION {FilesIn(Append(Append(BaseDir, f), EntryName(i)),
                               fs[f].entries[i], TRUE) : i \in DOMAIN fs[f].entries}
           ELSE {} :
           f \in Folders}

\* the position of a name in the listing of its directory
Rank(name) ==
    IF name \in Folders
    THEN CHOOSE i \in 1..Len(FOLDERS_TO_UPLOAD) : FOLDERS_TO_UPLOAD[i] = name
    ELSE CHOOSE i \in 1..MaxEntries : EntryName(i) = name

\* path p comes before path q: at the first segment where they differ, p's
\* folder is configured earlier, or p's entry is listed earlier
Before(p, q) ==
    \E k \in 1..Min(Len(p), Len(q)) :
        /\ \A j \in 1..(k - 1) : p[j] = q[j]
        /\ p[k] # q[k]
        /\ Rank(p[k]) < Rank(q[k])

\* allFiles is in depth-first listing order, configured folder by folder
InScanOrder ==
    \A i, j \in 1..Len(allFiles) : i < j => Before(allFiles[i], allFiles[j])

\* C16 as stated: the scan returns every regular file below an existing
\* configured folder, once, and nothing else, in depth-first listing order.
C16_AsStated ==
    scanRuns > 0 =>
        /\ SeqToSet(allFiles) = AllRegularFiles
        /\ InScanOrder

\* C16: the scan returns every regular file that is reached from an existing
\* configured folder through directories that can be listed, once, and
\* nothing else; the files of an earlier configured folder come before those
\* of a later one, and within a folder the order is depth-first in listing
\* order.
C16_ScanResult ==
    scanRuns > 0 =>
        /\ SeqToSet(allFiles) = ReadableFiles
        /\ Len(allFiles) = Cardinality(ReadableFiles)
        /\ InScanOrder

\* C16 witness: the first folder lists a directory that holds a directory
\* and a file, then an entry that is neither, then a file; the second
\* folder holds a file; the third is missing. Four files are returned.
C16_Witness ==
    /\ fs["ExamGenrator"] = Dir(TRUE, <<Dir(TRUE, <<Dir(TRUE, <<File>>), File>>), Other, File>>)
    /\ fs["Grand"] = Dir(TRUE, <<File>>)
    /\ fs["Keylinks"] = Missing
    /\ scanRuns = 1
    /\ allFiles = << <<"cwd", "ExamGenrator", "a.txt", "a.txt", "a.txt">>,
                     <<"cwd", "ExamGenrator", "a.txt", "b">>,
                     <<"cwd", "ExamGenrator", "c">>,
                     <<"cwd", "Grand", "a.txt">> >>

RECURSIVE FailedDirsIn(_, _)
\* the directories at or below an entry that the scan reaches and cannot list
FailedDirsIn(path, node) ==
    IF node.kind # "dir" THEN {}
    ELSE IF ~node.readable THEN {path}
         ELSE UNION {FailedDirsIn(Append(path, EntryName(i)), node.entries[i]) :
                        i \in DOMAIN node.entries}

\* the directories the scan reaches and cannot list, a configured folder
\* that exists and is not a directory among them
FailedDirs ==
    UNION {IF fs[f].kind \in {"file", "other"}
           THEN {Append(BaseDir, f)}
           ELSE FailedDirsIn(Append(BaseDir, f), fs[f]) :
           f \in Folders}

\* path p lies below directory d
Below(p, d) == Len(p) > Len(d) /\ SubSeq(p, 1, Len(d)) = d

\* C17: a directory that cannot be listed costs one logged error and the
\* files below it, nothing more: the errors logged are as many as the
\* directories reached that cannot be listed, the regular files missing
\* from the result are exactly those below such a directory, and the scan
\* ends normally: main goes on to the upload, or exits with code 0 when no
\* file was found.
C17_BestEffortTraversal ==
    scanRuns > 0 =>
        /\ scanErrors = Cardinality(FailedDirs)
        /\ AllRegularFiles \ SeqToSet(allFiles) =
                {p \in AllRegularFiles : \E d \in FailedDirs : Below(p, d)}
        /\ pc \in {"uploading", "done", "exited"}
        /\ (pc = "exited" /\ faults = {}) => (exitCode = 0 /\ totalFiles = 0)
        /\ totalFiles = Len(allFiles)

\* C17 witness: the first folder lists a file, a directory that cannot be
\* listed, a directory whose first subdirectory cannot be listed, and a
\* file: two errors were logged, the files before, between and after are
\* returned, and main has gone on to the upload
C17_Witness ==
    /\ fs["ExamGenrator"] = Dir(TRUE, <<File, Dir(FALSE, <<File>>),
                                       Dir(TRUE, <<Dir(FALSE, <<File>>), File>>)>>)
    /\ fs["Grand"] = Missing /\ fs["Keylinks"] = Missing
    /\ scanErrors = 2
    /\ allFiles = << <<"cwd", "ExamGenrator", "a.txt">>,
                     <<"cwd", "ExamGenrator", "c", "b">> >>
    /\ pc = "uploading"

\* C18 as stated: whatever the CONCURRENCY setting, config.concurrency is a
\* positive integer; the loop that builds the batches ends (it makes at most
\* one batch per file) and, once built, the batches hold every file.
C18_PositiveConcurrency ==
    /\ ~concurrencyIsNaN /\ concurrency >= 1
    /\ Len(batches) <= totalFiles
    /\ loopPc = "built" => Concat(batches) = Positions(totalFiles)

\* C20: a unit whose every attempt so far failed at the read of the file has
\* made no sink call; it is in its retry delay while retries are left, and
\* after retryAttempts + 1 failed reads it is failed, counted as failed once
\* and reported once. A failed read uses up one attempt like a failed sink
\* call does.
C20_ReadFailureRetried ==
    \A i \in DOMAIN units :
        LET u == units[i] IN
        /\ u.readFails <= (IF Dispatched(u) THEN Attempts(u) ELSE 0)
        /\ (Dispatched(u) /\ u.readFails = Attempts(u)) =>
            /\ u.sinkCalls = 0
            /\ u.status = (IF u.retryCount < retryAttempts THEN "waiting" ELSE "failed")
            /\ u.status = "failed" =>
                /\ u.readFails = retryAttempts + 1
                /\ u.failIncs = 1 /\ u.upIncs = 0 /\ u.emits = 1

\* C20 witness: with retryAttempts = 1 a file could not be read on either
\* attempt: its unit is failed after two failed reads, no sink call was
\* made for it and failedFiles counts it
C20_Witness ==
    /\ retryAttempts = 1
    /\ \E i \in DOMAIN units :
        /\ units[i].status = "failed"
        /\ units[i].readFails = 2
        /\ units[i].sinkCalls = 0
        /\ units[i].failIncs = 1
    /\ failedFiles >= 1

\* C19 as stated: when every sink call returns and every retry delay
\* elapses, a run that has started its upload reaches the final summary,
\* with every batch started and every unit settled.
C19_Termination ==
    (pc = "uploading") ~>
        (/\ pc = "done"
         /\ batchIdx = Len(batches)
         /\ \A i \in DOMAIN units : Settled(units[i]))

====
